---- MODULE Spec2Model ----
(***************************************************************************)
(* Sports-match REST backend: the request validation schemas               *)
(* (src/src/validation/matches.js), the relational schema                  *)
(* (src/src/db/schema.js) and the /matches routes that put one validation  *)
(* step in front of one SQL statement.                                     *)
(***************************************************************************)
EXTENDS Integers, Sequences, FiniteSets, TLC

VARIABLES
    matches,        \* table matches: stored id -> row
    commentary,     \* table commentary: stored id -> row
    matchSeq,       \* last value handed out by the serial of matches.id
    commentarySeq,  \* last value handed out by the serial of commentary.id
    now,            \* the store's clock, read by defaultNow()
    request,        \* the request being answered
    response,       \* its answer
    sent,           \* history: commentary id -> the body it was created from
    statements,     \* the SQL statements the request being answered has run
    workers,        \* concurrent requests: request number -> its progress
    pool            \* the requests that hold a connection of the pool

vars == <<matches, commentary, matchSeq, commentarySeq, now, request, response, sent,
          statements, workers, pool>>

(***************************************************************************)
(* Bounds of the model.                                                    *)
(***************************************************************************)
MaxRows == 2   \* rows the two serials hand out ids for, in all
PoolMax == 2   \* connections the pool hands out at a time

(***************************************************************************)
(* JSON values as they arrive in a request: a tagged value.  A number is   *)
(* the fraction num/den in lowest terms, den = 0 standing for NaN.         *)
(***************************************************************************)
Raw(t, s, num, den) == [t |-> t, s |-> s, num |-> num, den |-> den]
Undef == Raw("undefined", "", 0, 1)
Null == Raw("null", "", 0, 1)
Str(s) == Raw("string", s, 0, 1)
Num(n) == Raw("number", "", n, 1)
Frac(n, d) == Raw("number", "", n, d)
NaN == Raw("number", "", 0, 0)

IsNaN(x) == x.den = 0
IsInteger(x) == x.den = 1

\* The largest limit listMatchesQuerySchema lets through: .max(100).
MaxLimit == 100

\* The decimal strings the model's requests use, by the integer they spell.
MaxNumeral == MaxRows + 3
NumeralRange == (0..MaxNumeral) \cup {MaxLimit, MaxLimit + 1}
Numerals == {ToString(n) : n \in NumeralRange}
NumeralValue(s) == CHOOSE n \in NumeralRange : ToString(n) = s

\* JavaScript's Number(v), the conversion z.coerce.number() applies first.
JsNumber(v) ==
    CASE v.t = "number" -> v
      [] v.t = "null" -> Num(0)
      [] v.t = "undefined" -> NaN
      [] v.t = "string" ->
            IF v.s = "" THEN Num(0)
            ELSE IF v.s \in Numerals THEN Num(NumeralValue(v.s))
            ELSE IF v.s = "-1" THEN Num(-1)
            ELSE IF v.s = "1.5" THEN Frac(3, 2)
            ELSE NaN
      [] OTHER -> NaN

(***************************************************************************)
(* Timestamp strings.  Minutes are counted from 2026-03-01T00:00:00Z.      *)
(***************************************************************************)
T1500Z == "2026-03-01T15:00:00Z"
T1700Z == "2026-03-01T17:00:00Z"
T1700Plus2 == "2026-03-01T17:00:00+02:00"
DateOnly == "2026-03-01"
NotADate == "tomorrow"

\* The strings z.iso.datetime() accepts: date, "T", time and a literal "Z"
\* (offsets and bare dates are refused by default).
IsIsoDatetime(s) == s \in {T1500Z, T1700Z}

\* Date.parse: the instant in minutes, or NaN.
DateParse(s) ==
    CASE s = T1500Z -> Num(900)
      [] s = T1700Z -> Num(1020)
      [] s = T1700Plus2 -> Num(900)
      [] s = DateOnly -> Num(0)
      [] OTHER -> NaN

(***************************************************************************)
(* Validation issues and results (zod).  An issue whose continue flag is   *)
(* FALSE aborts the checks that would run after it.                        *)
(***************************************************************************)
Issue(path, code, message, cont) ==
    [path |-> path, code |-> code, message |-> message, continue |-> cont]

Aborted(issues) == \E i \in 1..Len(issues) : ~issues[i].continue

\* As StringMin1 with the minimum length left out.
StringAny(path, v, message) ==
    IF v.t # "string" THEN <<Issue(path, "invalid_type", "expected string", FALSE)>>
    ELSE <<>>

\* z.string().min(1, { message })
StringMin1(path, v, message) ==
    IF v.t # "string" THEN <<Issue(path, "invalid_type", "expected string", FALSE)>>
    ELSE IF Len(v.s) < 1 THEN <<Issue(path, "too_small", message, TRUE)>>
    ELSE <<>>

\* z.iso.datetime()
IsoDatetime(path, v) ==
    IF v.t # "string" THEN <<Issue(path, "invalid_type", "expected string", FALSE)>>
    ELSE IF ~IsIsoDatetime(v.s) THEN <<Issue(path, "invalid_format", "Invalid ISO datetime", TRUE)>>
    ELSE <<>>

\* As IntMin0 with the lower bound left out.
IntOnly(path, v) ==
    LET n == JsNumber(v) IN
    IF IsNaN(n) THEN <<Issue(path, "invalid_type", "expected number", FALSE)>>
    ELSE IF ~IsInteger(n) THEN <<Issue(path, "invalid_type", "expected int", FALSE)>>
    ELSE <<>>

\* z.coerce.number().int().min(0)
IntMin0(path, v) ==
    LET n == JsNumber(v) IN
    IF IsNaN(n) THEN <<Issue(path, "invalid_type", "expected number", FALSE)>>
    ELSE IF ~IsInteger(n) THEN <<Issue(path, "invalid_type", "expected int", FALSE)>>
    ELSE IF n.num < 0 THEN <<Issue(path, "too_small", "expected number to be >=0", TRUE)>>
    ELSE <<>>

\* z.coerce.number().int().min(0).optional()
OptionalIntMin0(path, v) ==
    IF v.t = "undefined" THEN <<>> ELSE IntMin0(path, v)

\* As IntPositive with zero let through (.nonnegative()).
IntNonNegative(path, v) ==
    LET n == JsNumber(v) IN
    IF IsNaN(n) THEN <<Issue(path, "invalid_type", "expected number", FALSE)>>
    ELSE IF ~IsInteger(n) THEN <<Issue(path, "invalid_type", "expected int", FALSE)>>
    ELSE IF n.num < 0 THEN <<Issue(path, "too_small", "expected number to be >0", TRUE)>>
    ELSE <<>>

\* z.coerce.number().int().positive()
IntPositive(path, v) ==
    LET n == JsNumber(v) IN
    IF IsNaN(n) THEN <<Issue(path, "invalid_type", "expected number", FALSE)>>
    ELSE IF ~IsInteger(n) THEN <<Issue(path, "invalid_type", "expected int", FALSE)>>
    ELSE IF n.num <= 0 THEN <<Issue(path, "too_small", "expected number to be >0", TRUE)>>
    ELSE <<>>

\* As IntPositiveMax with the upper bound itself refused.
IntPositiveBelowMax(path, v) ==
    LET n == JsNumber(v)
        issues == IntPositive(path, v)
    IN  IF Aborted(issues) THEN issues
        ELSE issues \o (IF n.num >= MaxLimit
                        THEN <<Issue(path, "too_big", "expected number to be <=100", TRUE)>>
                        ELSE <<>>)

\* z.coerce.number().int().positive().max(100): the checks run in the order
\* they were chained, and none runs after an issue that aborts.
IntPositiveMax(path, v) ==
    LET n == JsNumber(v)
        issues == IntPositive(path, v)
    IN  IF Aborted(issues) THEN issues
        ELSE issues \o (IF n.num > MaxLimit
                        THEN <<Issue(path, "too_big", "expected number to be <=100", TRUE)>>
                        ELSE <<>>)

\* z.coerce.number().int().positive().max(100).optional()
OptionalIntPositiveMax(path, v) ==
    IF v.t = "undefined" THEN <<>> ELSE IntPositiveMax(path, v)

\* The field checks of createMatchSchema's z.object, in the order of its shape.
CreateMatchFieldIssues(body) ==
    StringMin1("sport", body.sport, "sport is required")
    \o StringMin1("homeTeam", body.homeTeam, "homeTeam is required")
    \o StringMin1("awayTeam", body.awayTeam, "awayTeam is required")
    \o IsoDatetime("startTime", body.startTime)
    \o IsoDatetime("endTime", body.endTime)
    \o OptionalIntMin0("homeScore", body.homeScore)
    \o OptionalIntMin0("awayScore", body.awayScore)

\* As CreateMatchRefine with equal timestamps let through (end < start).
CreateMatchRefineStrict(data) ==
    LET start == DateParse(data.startTime.s)
        end == DateParse(data.endTime.s)
    IN  (IF IsNaN(start)
            THEN <<Issue("", "custom", "startTime must be a valid ISO date", TRUE)>>
            ELSE <<>>)
        \o (IF IsNaN(end)
            THEN <<Issue("", "custom", "endTime must be a valid ISO date", TRUE)>>
            ELSE <<>>)
        \o (IF ~IsNaN(start) /\ ~IsNaN(end) /\ end.num < start.num
            THEN <<Issue("", "custom", "endTime must be after startTime", TRUE)>>
            ELSE <<>>)

\* The superRefine callback of createMatchSchema; its issues carry no path.
CreateMatchRefine(data) ==
    LET start == DateParse(data.startTime.s)
        end == DateParse(data.endTime.s)
    IN  (IF IsNaN(start)
            THEN <<Issue("", "custom", "startTime must be a valid ISO date", TRUE)>>
            ELSE <<>>)
        \o (IF IsNaN(end)
            THEN <<Issue("", "custom", "endTime must be a valid ISO date", TRUE)>>
            ELSE <<>>)
        \o (IF ~IsNaN(start) /\ ~IsNaN(end) /\ end.num <= start.num
            THEN <<Issue("", "custom", "endTime must be after startTime", TRUE)>>
            ELSE <<>>)

\* As CreateMatchData with the keys the shape does not name passed through
\* (a loose object).
CreateMatchDataLoose(body) ==
    LET keys == {"sport", "homeTeam", "awayTeam", "startTime", "endTime"}
                \cup (IF body.homeScore.t = "undefined" THEN {} ELSE {"homeScore"})
                \cup (IF body.awayScore.t = "undefined" THEN {} ELSE {"awayScore"})
                \cup (DOMAIN body \ {"homeScore", "awayScore"})
    IN  [k \in keys |->
            IF k \in {"homeScore", "awayScore"} THEN JsNumber(body[k]).num
            ELSE IF k = "id" THEN body[k].num
            ELSE IF k = "createdAt" THEN DateParse(body[k].s).num
            ELSE body[k].s]

\* The value a successful parse of createMatchSchema produces: the keys of
\* the shape only, the scores coerced, an omitted score left out.
CreateMatchData(body) ==
    LET keys == {"sport", "homeTeam", "awayTeam", "startTime", "endTime"}
                \cup (IF body.homeScore.t = "undefined" THEN {} ELSE {"homeScore"})
                \cup (IF body.awayScore.t = "undefined" THEN {} ELSE {"awayScore"})
    IN  [k \in keys |->
            IF k \in {"homeScore", "awayScore"} THEN JsNumber(body[k]).num
            ELSE body[k].s]

\* As createMatchSchema with the refinement skipped after any field issue.
createMatchSchemaFieldsFirst(body) ==
    LET fields == CreateMatchFieldIssues(body)
        issues == IF fields # <<>> THEN fields ELSE CreateMatchRefine(body)
    IN  IF issues = <<>>
        THEN [success |-> TRUE, data |-> CreateMatchData(body), issues |-> <<>>]
        ELSE [success |-> FALSE, data |-> [none |-> TRUE], issues |-> issues]

\* createMatchSchema.safeParse(body): the refinement runs only when no issue
\* found so far aborts.
createMatchSchema(body) ==
    LET fields == CreateMatchFieldIssues(body)
        issues == IF Aborted(fields) THEN fields ELSE fields \o CreateMatchRefine(body)
    IN  IF issues = <<>>
        THEN [success |-> TRUE, data |-> CreateMatchData(body), issues |-> <<>>]
        ELSE [success |-> FALSE, data |-> [none |-> TRUE], issues |-> issues]

\* updateScoreSchema.safeParse(body)
updateScoreSchema(body) ==
    LET issues == IntMin0("homeScore", body.homeScore)
                  \o IntMin0("awayScore", body.awayScore)
    IN  IF issues = <<>>
        THEN [success |-> TRUE,
              data |-> [homeScore |-> JsNumber(body.homeScore).num,
                        awayScore |-> JsNumber(body.awayScore).num],
              issues |-> <<>>]
        ELSE [success |-> FALSE, data |-> [none |-> TRUE], issues |-> issues]

\* listMatchesQuerySchema.safeParse(query): the value carries limit only
\* when the query does.
listMatchesQuerySchema(query) ==
    LET issues == OptionalIntPositiveMax("limit", query.limit)
    IN  IF issues = <<>>
        THEN [success |-> TRUE,
              data |-> IF query.limit.t = "undefined" THEN [k \in {} |-> 0]
                       ELSE [limit |-> JsNumber(query.limit).num],
              issues |-> <<>>]
        ELSE [success |-> FALSE, data |-> [none |-> TRUE], issues |-> issues]

\* matchIdParamSchema.safeParse(params)
matchIdParamSchema(params) ==
    LET issues == IntPositive("id", params.id)
    IN  IF issues = <<>>
        THEN [success |-> TRUE, data |-> [id |-> JsNumber(params.id).num], issues |-> <<>>]
        ELSE [success |-> FALSE, data |-> [none |-> TRUE], issues |-> issues]

(***************************************************************************)
(* Start-up configuration: drizzle.config.js and src/db/db.js read         *)
(* DATABASE_URL from the environment and refuse to load without it.        *)
(***************************************************************************)
UrlPlain == "postgresql://localhost:5432/db"
UrlPadded == "  postgresql://localhost:5432/db  "
UrlMalformed == "not-a-valid-url"

\* The environments the modules are loaded under: the variable deleted, or
\* holding one of these values.
EnvValues == {Undef, Null, Str(""), Str(UrlPlain), Str(UrlPadded), Str(UrlMalformed)}
Environments == {[k \in {} |-> Undef]} \cup {[DATABASE_URL |-> v] : v \in EnvValues}

\* process.env.DATABASE_URL
EnvGet(env, name) == IF name \in DOMAIN env THEN env[name] ELSE Undef

\* As JsTruthy with only undefined taken for missing.
JsDefined(v) == v.t # "undefined"

\* JavaScript's truthiness, as `if (!value)` tests it.
JsTruthy(v) ==
    CASE v.t = "string" -> v.s # ""
      [] v.t = "number" -> ~IsNaN(v) /\ v.num # 0
      [] OTHER -> FALSE

\* import('./drizzle.config.js'): throws, or exports the configuration.
drizzleConfig(env) ==
    LET url == EnvGet(env, "DATABASE_URL") IN
    IF ~JsTruthy(url)
    THEN [threw |-> TRUE, message |-> "DATABASE_URL is not set in .env file"]
    ELSE [threw |-> FALSE,
          schema |-> "./src/db/schema.js", out |-> "./drizzle", dialect |-> "postgresql",
          url |-> url.s]

\* import('./db.js'): throws, or exports the pool made for the connection
\* string (and db on top of it).
dbModule(env) ==
    LET url == EnvGet(env, "DATABASE_URL") IN
    IF ~JsTruthy(url)
    THEN [threw |-> TRUE, message |-> "DATABASE_URL is not defined"]
    ELSE [threw |-> FALSE, url |-> url.s]

(***************************************************************************)
(* The relational schema.                                                  *)
(***************************************************************************)
matchStatusEnum == {"scheduled", "live", "finished"}

\* A function extended or overwritten at one key.
Put(f, k, v) == [x \in DOMAIN f \cup {k} |-> IF x = k THEN v ELSE f[x]]
Drop(f, k) == [x \in DOMAIN f \ {k} |-> f[x]]

\* As MatchesRow with the defaults of status and the scores gone wrong.
MatchesRowOtherDefaults(id, values, clock) ==
    [id |-> IF "id" \in DOMAIN values THEN values.id ELSE id,
     sport |-> values.sport,
     homeTeam |-> values.homeTeam,
     awayTeam |-> values.awayTeam,
     status |-> IF "status" \in DOMAIN values THEN values.status ELSE "live",
     startTime |-> values.startTime,
     endTime |-> IF "endTime" \in DOMAIN values THEN {values.endTime} ELSE {},
     homeScore |-> IF "homeScore" \in DOMAIN values THEN values.homeScore ELSE 0,
     awayScore |-> IF "awayScore" \in DOMAIN values THEN values.awayScore ELSE 0,
     createdAt |-> IF "createdAt" \in DOMAIN values THEN values.createdAt ELSE clock]

\* Table matches: the row an INSERT of `values` stores.  Columns left out
\* take their defaults (id the next value of its serial, created_at the
\* store's clock); end_time is the one nullable column ({} is NULL).
MatchesRow(id, values, clock) ==
    [id |-> IF "id" \in DOMAIN values THEN values.id ELSE id,
     sport |-> values.sport,
     homeTeam |-> values.homeTeam,
     awayTeam |-> values.awayTeam,
     status |-> IF "status" \in DOMAIN values THEN values.status ELSE "scheduled",
     startTime |-> values.startTime,
     endTime |-> IF "endTime" \in DOMAIN values THEN {values.endTime} ELSE {},
     homeScore |-> IF "homeScore" \in DOMAIN values THEN values.homeScore ELSE 0,
     awayScore |-> IF "awayScore" \in DOMAIN values THEN values.awayScore ELSE 0,
     createdAt |-> IF "createdAt" \in DOMAIN values THEN values.createdAt ELSE clock]

\* The NOT NULL columns without a default, and the enum type of status.
MatchesAccepts(values) ==
    /\ {"sport", "homeTeam", "awayTeam", "startTime"} \subseteq DOMAIN values
    /\ "status" \in DOMAIN values => values.status \in matchStatusEnum

\* Table commentary: the row an INSERT of `values` stores; metadata is held
\* as jsonb and tags as text[] ({} is NULL).
JsonKeys(m) == {m[i][1] : i \in 1..Len(m)}
JsonGet(m, k) == m[CHOOSE i \in 1..Len(m) : m[i][1] = k][2]

\* The order in which jsonb keeps object keys (shorter keys first, then by
\* bytes), over the keys the model's payloads use.
JsonbKeyOrder == <<"a", "x", "playerId">>
KeyRank(k) == CHOOSE i \in 1..Len(JsonbKeyOrder) : JsonbKeyOrder[i] = k
KeyBefore(a, b) == KeyRank(a) < KeyRank(b)

RECURSIVE JsonbSorted(_, _)
JsonbSorted(m, keys) ==
    IF keys = {} THEN <<>>
    ELSE LET k == CHOOSE x \in keys : \A y \in keys \ {x} : KeyBefore(x, y)
         IN  << <<k, JsonGet(m, k)>> >> \o JsonbSorted(m, keys \ {k})

\* jsonb('metadata'): the object as the column stores it, one pair per key
\* in the column's own key order.
ToJsonb(m) == JsonbSorted(m, JsonKeys(m))

\* As MakePgArray for a plain text column: one value, not an array.
MakePgScalar(t) ==
    <<[k |-> "open", v |-> ""]>>
    \o [i \in 1..(IF Len(t) = 0 THEN 0 ELSE 1) |-> [k |-> "elem", v |-> t[i]]]
    \o <<[k |-> "close", v |-> ""]>>

\* text('tags').array(): the array literal written to the column, and the
\* array read back from it.
MakePgArray(t) ==
    <<[k |-> "open", v |-> ""]>>
    \o [i \in 1..Len(t) |-> [k |-> "elem", v |-> t[i]]]
    \o <<[k |-> "close", v |-> ""]>>
ParsePgArray(lit) ==
    LET elems == SelectSeq(lit, LAMBDA tok : tok.k = "elem")
    IN  [i \in 1..Len(elems) |-> elems[i].v]

CommentaryRow(id, values, clock) ==
    [id |-> id,
     matchId |-> values.matchId,
     metadata |-> IF "metadata" \in DOMAIN values THEN {ToJsonb(values.metadata)} ELSE {},
     tags |-> IF "tags" \in DOMAIN values THEN {MakePgArray(values.tags)} ELSE {},
     createdAt |-> clock]

\* As ForeignKeyHolds with the constraint left out of the table.
NoForeignKey(rows, values) == TRUE

\* The foreignKey of commentary: every match_id is the id of a match.
ForeignKeyHolds(rows, values) == values.matchId \in DOMAIN rows

\* As Referenced with the constraint not looked at when a match is deleted.
NeverReferenced(id, comments) == FALSE

\* With no ON DELETE action a match that commentary refers to cannot go.
Referenced(id, comments) == \E c \in DOMAIN comments : comments[c].matchId = id

\* A commentary row as a query returns it.
ReadCommentary(row) ==
    [id |-> row.id,
     matchId |-> row.matchId,
     metadata |-> row.metadata,
     tags |-> {ParsePgArray(lit) : lit \in row.tags},
     createdAt |-> row.createdAt]

\* As UpdateMatches with only the first column of the set clause written.
UpdateHomeScoreOnly(rows, id, set) ==
    [i \in DOMAIN rows |->
        IF i = id
        THEN [c \in DOMAIN rows[i] |->
                IF c \in DOMAIN set /\ c = "homeScore" THEN set[c] ELSE rows[i][c]]
        ELSE rows[i]]

\* As UpdateMatches with the where clause left out.
UpdateAllMatches(rows, id, set) ==
    [i \in DOMAIN rows |->
        [c \in DOMAIN rows[i] |-> IF c \in DOMAIN set THEN set[c] ELSE rows[i][c]]]

\* db.update(matches).set(set).where(eq(matches.id, id))
UpdateMatches(rows, id, set) ==
    [i \in DOMAIN rows |->
        IF i = id
        THEN [c \in DOMAIN rows[i] |-> IF c \in DOMAIN set THEN set[c] ELSE rows[i][c]]
        ELSE rows[i]]

\* db.delete(matches).where(eq(matches.id, id))
DeleteMatches(rows, id) == Drop(rows, id)

\* db.select().from(matches).where(eq(matches.id, id))
SelectMatch(rows, id) == {rows[i] : i \in {j \in DOMAIN rows : j = id}}

(***************************************************************************)
(* Requests.                                                               *)
(***************************************************************************)
BaseBody ==
    [sport |-> Str("football"), homeTeam |-> Str("Team A"), awayTeam |-> Str("Team B"),
     startTime |-> Str(T1500Z), endTime |-> Str(T1700Z),
     homeScore |-> Undef, awayScore |-> Undef]

\* createMatch bodies: BaseBody, and BaseBody with one field replaced.
Replacements ==
    [sport |-> {Undef, Str("")}, homeTeam |-> {Undef, Str("")},
     awayTeam |-> {Undef, Str("")},
     startTime |-> {Undef, Str(""), Str(T1700Z)}, endTime |-> {Undef, Str(T1500Z)},
     homeScore |-> {Num(-1), Str("1")}, awayScore |-> {Num(-1), Num(1)}]
\* BaseBody with the columns a client is not to set: id, status, createdAt.
ExtraBody ==
    [k \in DOMAIN BaseBody \cup {"id", "status", "createdAt"} |->
        CASE k = "id" -> Num(MaxNumeral + 2)
          [] k = "status" -> Str("finished")
          [] k = "createdAt" -> Str(T1500Z)
          [] OTHER -> BaseBody[k]]

RouteBodies ==
    {BaseBody, ExtraBody} \cup
    UNION {{[BaseBody EXCEPT ![f] = v] : v \in Replacements[f]} : f \in DOMAIN BaseBody}

ScoreBodies == [homeScore : {Num(-1), Num(3)}, awayScore : {Undef, Str("2")}]

\* Path parameters: 0, the ids handed out so far, and the next one.
IdParams == {Str(ToString(i)) : i \in 0..matchSeq + 1}

CommentaryBodies ==
    {[k \in {} |-> <<>>],
     [metadata |-> << <<"playerId", 1>> >>, tags |-> <<"goal", "highlight">>],
     [metadata |-> << <<"x", 1>>, <<"a", 2>> >>, tags |-> <<"penalty", "goal", "penalty">>]}

NoRows == {}
Respond(status, kind, issues, rows) ==
    [status |-> status, kind |-> kind, issues |-> issues, rows |-> rows]

Init ==
    /\ matches = <<>>
    /\ commentary = <<>>
    /\ matchSeq = 0
    /\ commentarySeq = 0
    /\ now = 0
    /\ request = [op |-> "none"]
    /\ response = Respond(0, "none", <<>>, NoRows)
    /\ sent = <<>>
    /\ statements = <<>>
    /\ workers = <<>>
    /\ pool = {}

\* The values POST /matches inserts: the validated data with both
\* timestamps turned into dates.
CreateMatchValues(data) ==
    [k \in DOMAIN data |->
        IF k \in {"startTime", "endTime"} THEN DateParse(data[k]).num ELSE data[k]]

\* POST /matches
CreateMatch(body) ==
    LET parsed == createMatchSchema(body) IN
    /\ request' = [op |-> "createMatch", body |-> body]
    /\ IF ~parsed.success
       THEN /\ response' = Respond(400, "ValidationError", parsed.issues, NoRows)
            /\ UNCHANGED <<matches, matchSeq>>
       ELSE LET values == CreateMatchValues(parsed.data)
                row == MatchesRow(matchSeq + 1, values, now)
            IN  /\ matchSeq + commentarySeq < MaxRows
                /\ matchSeq' = matchSeq + 1
                /\ IF MatchesAccepts(values)
                   THEN /\ matches' = Put(matches, row.id, row)
                        /\ response' = Respond(201, "ok", <<>>, {row})
                   ELSE /\ matches' = matches
                        /\ response' = Respond(500, "ConstraintError", <<>>, NoRows)
    /\ now' = IF parsed.success THEN now + 1 ELSE now
    /\ statements' = IF parsed.success THEN <<"insert into matches">> ELSE <<>>
    /\ UNCHANGED <<commentary, commentarySeq, sent, workers, pool>>

\* PATCH /matches/:id/score
UpdateMatchScore(id, body) ==
    LET params == matchIdParamSchema([id |-> id])
        parsed == updateScoreSchema(body)
    IN
    /\ request' = [op |-> "updateMatchScore", id |-> id, body |-> body]
    /\ IF ~params.success
       THEN /\ response' = Respond(400, "ValidationError", params.issues, NoRows)
            /\ matches' = matches
       ELSE IF ~parsed.success
       THEN /\ response' = Respond(400, "ValidationError", parsed.issues, NoRows)
            /\ matches' = matches
       ELSE /\ matches' = UpdateMatches(matches, params.data.id, parsed.data)
            /\ response' =
                 IF SelectMatch(matches', params.data.id) = {}
                 THEN Respond(404, "NotFound", <<>>, NoRows)
                 ELSE Respond(200, "ok", <<>>, SelectMatch(matches', params.data.id))
    /\ statements' = IF params.success /\ parsed.success THEN <<"update matches">> ELSE <<>>
    /\ UNCHANGED <<commentary, matchSeq, commentarySeq, now, sent, workers, pool>>

\* DELETE /matches/:id
DeleteMatch(id) ==
    LET params == matchIdParamSchema([id |-> id]) IN
    /\ request' = [op |-> "deleteMatch", id |-> id]
    /\ IF ~params.success
       THEN /\ response' = Respond(400, "ValidationError", params.issues, NoRows)
            /\ matches' = matches
       ELSE IF SelectMatch(matches, params.data.id) = {}
       THEN /\ response' = Respond(404, "NotFound", <<>>, NoRows)
            /\ matches' = matches
       ELSE IF Referenced(params.data.id, commentary)
       THEN /\ response' = Respond(409, "ConstraintError", <<>>, NoRows)
            /\ matches' = matches
       ELSE /\ response' = Respond(200, "ok", <<>>, SelectMatch(matches, params.data.id))
            /\ matches' = DeleteMatches(matches, params.data.id)
    /\ statements' = IF params.success THEN <<"delete from matches">> ELSE <<>>
    /\ UNCHANGED <<commentary, matchSeq, commentarySeq, now, sent, workers, pool>>

\* POST /matches/:id/commentary
AddCommentary(id, body) ==
    LET params == matchIdParamSchema([id |-> id]) IN
    /\ request' = [op |-> "addCommentary", id |-> id, body |-> body]
    /\ IF ~params.success
       THEN /\ response' = Respond(400, "ValidationError", params.issues, NoRows)
            /\ UNCHANGED <<commentary, commentarySeq, sent>>
       ELSE LET values == [k \in DOMAIN body \cup {"matchId"} |->
                              IF k = "matchId" THEN params.data.id ELSE body[k]]
                row == CommentaryRow(commentarySeq + 1, values, now)
            IN  /\ matchSeq + commentarySeq < MaxRows
                /\ commentarySeq' = commentarySeq + 1
                /\ IF ForeignKeyHolds(matches, values)
                   THEN /\ commentary' = Put(commentary, row.id, row)
                        /\ sent' = Put(sent, row.id, body)
                        /\ response' = Respond(201, "ok", <<>>, {ReadCommentary(row)})
                   ELSE /\ UNCHANGED <<commentary, sent>>
                        /\ response' = Respond(409, "ConstraintError", <<>>, NoRows)
    /\ now' = IF params.success THEN now + 1 ELSE now
    /\ statements' = IF params.success THEN <<"insert into commentary">> ELSE <<>>
    /\ UNCHANGED <<matches, matchSeq, workers, pool>>

Next ==
    \/ \E body \in RouteBodies : CreateMatch(body)
    \/ \E id \in IdParams, body \in ScoreBodies : UpdateMatchScore(id, body)
    \/ \E id \in IdParams : DeleteMatch(id)
    \/ \E id \in IdParams, body \in CommentaryBodies : AddCommentary(id, body)

Spec == Init /\ [][Next]_vars

(***************************************************************************)
(* The validation schemas on their own: each step parses one input.        *)
(***************************************************************************)
AllBodies ==
    [sport : {Undef, Str(""), Str("football"), Num(7)},
     homeTeam : {Undef, Str(""), Str("Team A")},
     awayTeam : {Undef, Str(""), Str("Team B")},
     startTime : {Undef, Str(T1500Z), Str(T1700Z), Str(T1700Plus2), Str(DateOnly), Str(NotADate)},
     endTime : {Undef, Str(T1500Z), Str(T1700Z), Str(T1700Plus2), Str(DateOnly), Str(NotADate)},
     homeScore : {Undef, Null, Num(-1), Num(1), Frac(3, 2), Str("abc")},
     awayScore : {Undef, Str(""), Num(-1), Str("1")}]

\* What a query string, a path parameter or a JSON body may hold where a
\* schema coerces to a number.
NumberInputs ==
    {Undef, Null, Str(""), Str("abc"), Str("0"), Str("1"), Str("-1"), Str("1.5"),
     Str(ToString(MaxLimit)), Str(ToString(MaxLimit + 1)),
     Num(0), Num(1), Num(-1), Frac(3, 2), Frac(-3, 2), Num(MaxLimit), Num(MaxLimit + 1)}

AllScoreBodies == [homeScore : NumberInputs, awayScore : NumberInputs]

Pending == [success |-> FALSE, data |-> [none |-> TRUE], issues |-> <<>>, pending |-> TRUE]

InitV ==
    /\ matches = <<>>
    /\ commentary = <<>>
    /\ matchSeq = 0
    /\ commentarySeq = 0
    /\ now = 0
    /\ sent = <<>>
    /\ statements = <<>>
    /\ workers = <<>>
    /\ pool = {}
    /\ request \in {[op |-> "createMatchSchema", body |-> b] : b \in AllBodies}
                    \cup {[op |-> "listMatchesQuerySchema", query |-> [limit |-> v]] :
                            v \in NumberInputs}
                    \cup {[op |-> "matchIdParamSchema", params |-> [id |-> v]] :
                            v \in NumberInputs}
                    \cup {[op |-> "updateScoreSchema", body |-> b] : b \in AllScoreBodies}
                    \cup {[op |-> m, env |-> e] :
                            m \in {"drizzleConfig", "dbModule"}, e \in Environments}
    /\ response = Pending

ParseCreateMatch ==
    /\ request.op = "createMatchSchema"
    /\ response = Pending
    /\ response' = createMatchSchema(request.body)
    /\ UNCHANGED <<matches, commentary, matchSeq, commentarySeq, now, sent, request>>
    /\ UNCHANGED <<statements, workers, pool>>

ParseListMatchesQuery ==
    /\ request.op = "listMatchesQuerySchema"
    /\ response = Pending
    /\ response' = listMatchesQuerySchema(request.query)
    /\ UNCHANGED <<matches, commentary, matchSeq, commentarySeq, now, sent, request>>
    /\ UNCHANGED <<statements, workers, pool>>

ParseMatchIdParam ==
    /\ request.op = "matchIdParamSchema"
    /\ response = Pending
    /\ response' = matchIdParamSchema(request.params)
    /\ UNCHANGED <<matches, commentary, matchSeq, commentarySeq, now, sent, request>>
    /\ UNCHANGED <<statements, workers, pool>>

ParseUpdateScore ==
    /\ request.op = "updateScoreSchema"
    /\ response = Pending
    /\ response' = updateScoreSchema(request.body)
    /\ UNCHANGED <<matches, commentary, matchSeq, commentarySeq, now, sent, request>>
    /\ UNCHANGED <<statements, workers, pool>>

LoadDrizzleConfig ==
    /\ request.op = "drizzleConfig"
    /\ response = Pending
    /\ response' = drizzleConfig(request.env)
    /\ UNCHANGED <<matches, commentary, matchSeq, commentarySeq, now, sent, request>>
    /\ UNCHANGED <<statements, workers, pool>>

LoadDbModule ==
    /\ request.op = "dbModule"
    /\ response = Pending
    /\ response' = dbModule(request.env)
    /\ UNCHANGED <<matches, commentary, matchSeq, commentarySeq, now, sent, request>>
    /\ UNCHANGED <<statements, workers, pool>>

NextV ==
    \/ ParseCreateMatch
    \/ ParseListMatchesQuery
    \/ ParseMatchIdParam
    \/ ParseUpdateScore
    \/ LoadDrizzleConfig
    \/ LoadDbModule

SpecV == InitV /\ [][NextV]_vars

(***************************************************************************)
(* Concurrent requests.  Each request validates, then runs its one         *)
(* statement on a connection of the pool: it takes a connection (waiting   *)
(* while none is free), the store executes the statement as one step, and  *)
(* the connection goes back to the pool before the request is answered.    *)
(***************************************************************************)
Requests == 1..(PoolMax + 2)

\* What request number p may ask: a score update of match 1 (its own pair,
\* or one that fails validation), the deletion of match 1, commentary for
\* match 2, which the store refuses while no such match exists.
Jobs(p) ==
    {[op |-> "updateMatchScore", id |-> Str("1"),
      body |-> [homeScore |-> Num(p), awayScore |-> Num(p)]],
     [op |-> "updateMatchScore", id |-> Str("1"),
      body |-> [homeScore |-> Num(-1), awayScore |-> Num(p)]],
     [op |-> "deleteMatch", id |-> Str("1")],
     [op |-> "addCommentary", id |-> Str("2"), body |-> [k \in {} |-> <<>>]]}

\* The validation step of a job's route.
JobIssues(job) ==
    LET params == matchIdParamSchema([id |-> job.id])
    IN  IF ~params.success THEN params.issues
        ELSE IF job.op = "updateMatchScore" THEN updateScoreSchema(job.body).issues
        ELSE <<>>

\* One match is stored when the requests arrive.
InitC ==
    /\ matches = Put(<<>>, 1, MatchesRow(1, CreateMatchValues(createMatchSchema(BaseBody).data), 0))
    /\ commentary = <<>>
    /\ matchSeq = 1
    /\ commentarySeq = 0
    /\ now = 1
    /\ sent = <<>>
    /\ statements = <<>>
    /\ request = [op |-> "none"]
    /\ response = Respond(0, "none", <<>>, NoRows)
    /\ workers = [p \in Requests |-> [pc |-> "idle"]]
    /\ pool = {}

Receive(p, job) ==
    /\ workers[p].pc = "idle"
    /\ workers' = [workers EXCEPT ![p] =
            IF JobIssues(job) # <<>>
            THEN [pc |-> "done", job |-> job,
                  response |-> Respond(400, "ValidationError", JobIssues(job), NoRows)]
            ELSE [pc |-> "waiting", job |-> job]]
    /\ UNCHANGED <<matches, commentary, matchSeq, commentarySeq, now, sent, statements,
                   request, response, pool>>

\* pool.connect(): a connection is handed out only while fewer than the
\* maximum are checked out.
Acquire(p) ==
    /\ workers[p].pc = "waiting"
    /\ Cardinality(pool) < PoolMax
    /\ pool' = pool \cup {p}
    /\ workers' = [workers EXCEPT ![p].pc = "running"]
    /\ UNCHANGED <<matches, commentary, matchSeq, commentarySeq, now, sent, statements,
                   request, response>>

\* The store executes the statement of p: one atomic step.
Execute(p) ==
    LET job == workers[p].job
        id == JsNumber(job.id).num
        answer(r) == [workers EXCEPT ![p] = [pc |-> "executed", job |-> job, response |-> r]]
    IN
    /\ workers[p].pc = "running"
    /\ IF job.op = "updateMatchScore"
       THEN /\ matches' = UpdateMatches(matches, id, updateScoreSchema(job.body).data)
            /\ workers' = answer(IF SelectMatch(matches', id) = {}
                                 THEN Respond(404, "NotFound", <<>>, NoRows)
                                 ELSE Respond(200, "ok", <<>>, SelectMatch(matches', id)))
            /\ UNCHANGED <<commentary, commentarySeq, now, sent>>
       ELSE IF job.op = "deleteMatch"
       THEN /\ matches' = IF Referenced(id, commentary) THEN matches
                          ELSE DeleteMatches(matches, id)
            /\ workers' = answer(IF SelectMatch(matches, id) = {}
                                 THEN Respond(404, "NotFound", <<>>, NoRows)
                                 ELSE IF Referenced(id, commentary)
                                 THEN Respond(409, "ConstraintError", <<>>, NoRows)
                                 ELSE Respond(200, "ok", <<>>, SelectMatch(matches, id)))
            /\ UNCHANGED <<commentary, commentarySeq, now, sent>>
       ELSE LET values == [k \in DOMAIN job.body \cup {"matchId"} |->
                              IF k = "matchId" THEN id ELSE job.body[k]]
                row == CommentaryRow(commentarySeq + 1, values, now)
            IN  /\ commentarySeq' = commentarySeq + 1
                /\ now' = now + 1
                /\ matches' = matches
                /\ IF ForeignKeyHolds(matches, values)
                   THEN /\ commentary' = Put(commentary, row.id, row)
                        /\ sent' = Put(sent, row.id, job.body)
                        /\ workers' = answer(Respond(
                                201, "ok", <<>>, {ReadCommentary(row)}))
                   ELSE /\ UNCHANGED <<commentary, sent>>
                        /\ workers' = answer(Respond(409, "ConstraintError", <<>>, NoRows))
    /\ UNCHANGED <<matchSeq, statements, request, response, pool>>

\* As Released with the connection given back only after a statement that
\* succeeded.
ReleasedOnSuccess(holders, p, answer) ==
    IF answer.status < 400 THEN holders \ {p} ELSE holders

\* client.release(): the connection of p is back in the pool.
Released(holders, p, answer) == holders \ {p}

\* The statement of p is over, with a result or an error: the connection
\* is released and the request answered.
Release(p) ==
    /\ workers[p].pc = "executed"
    /\ pool' = Released(pool, p, workers[p].response)
    /\ workers' = [workers EXCEPT ![p].pc = "done"]
    /\ UNCHANGED <<matches, commentary, matchSeq, commentarySeq, now, sent, statements,
                   request, response>>

NextC ==
    \E p \in Requests :
        \/ \E job \in Jobs(p) : Receive(p, job)
        \/ Acquire(p)
        \/ Execute(p)
        \/ Release(p)

SpecC == InitC /\ [][NextC]_vars

(***************************************************************************)
(* Properties.                                                             *)
(***************************************************************************)
Answered == "pending" \notin DOMAIN response

\* The number a raw value coerces to is an integer >= least.
IntAtLeast(v, least) ==
    LET n == JsNumber(v) IN ~IsNaN(n) /\ IsInteger(n) /\ n.num >= least

\* The raw path parameter is the id of a row of `rows`.
StoredId(id, rows) == IntAtLeast(id, 1) /\ JsNumber(id).num \in DOMAIN rows

NonEmptyString(v) == v.t = "string" /\ Len(v.s) >= 1

\* C1: a match created from a body that leaves out the scores (a body never
\* carries a status) is stored and returned with status scheduled, both
\* scores 0, the id the serial generated and a createdAt value.
C1_DefaultsWhenOmitted ==
    (/\ request.op = "createMatch"
     /\ request.body.homeScore = Undef
     /\ request.body.awayScore = Undef
     /\ response.status = 201)
    => /\ Cardinality(response.rows) = 1
       /\ \A row \in response.rows :
            /\ row.status = "scheduled"
            /\ row.homeScore = 0
            /\ row.awayScore = 0
            /\ row.id = matchSeq
            /\ row.createdAt \in 0..now
            /\ row.id \in DOMAIN matches
            /\ matches[row.id] = row

C1_Witness ==
    /\ request.op = "createMatch"
    /\ request.body.homeScore = Undef
    /\ request.body.awayScore = Undef
    /\ response.status = 201

\* C2 (as claimed): a creation request with non-empty sport, homeTeam and
\* awayTeam and a valid startTime but no endTime passes validation and
\* yields a stored match with status scheduled, both scores 0 and a
\* generated id.
C2_EndTimeOptional ==
    (/\ request.op = "createMatch"
     /\ NonEmptyString(request.body.sport)
     /\ NonEmptyString(request.body.homeTeam)
     /\ NonEmptyString(request.body.awayTeam)
     /\ request.body.startTime \in {Str(T1500Z), Str(T1700Z)}
     /\ request.body.endTime = Undef
     /\ request.body.homeScore = Undef
     /\ request.body.awayScore = Undef)
    => /\ response.status = 201
       /\ \E row \in response.rows :
            /\ row.status = "scheduled"
            /\ row.homeScore = 0
            /\ row.awayScore = 0
            /\ row.id = matchSeq
            /\ row.id \in DOMAIN matches

\* startTime and endTime both parse (Date.parse) and endTime <= startTime.
TimeParses(v) == v.t = "string" /\ ~IsNaN(DateParse(v.s))
EndNotAfterStart(body) ==
    /\ TimeParses(body.startTime)
    /\ TimeParses(body.endTime)
    /\ DateParse(body.endTime.s).num <= DateParse(body.startTime.s).num

HasMessage(issues, message) == \E i \in 1..Len(issues) : issues[i].message = message
NamesEndTime(issues) ==
    \E i \in 1..Len(issues) :
        \/ issues[i].path = "endTime"
        \/ issues[i].message \in {"endTime must be a valid ISO date",
                                  "endTime must be after startTime"}

\* Every field is present with the type its schema takes: the five text
\* fields are strings, a supplied score coerces to an integer.
WellTyped(body) ==
    /\ \A f \in {"sport", "homeTeam", "awayTeam", "startTime", "endTime"} : body[f].t = "string"
    /\ \A f \in {"homeScore", "awayScore"} :
         body[f] = Undef \/ (~IsNaN(JsNumber(body[f])) /\ IsInteger(JsNumber(body[f])))

LacksRequired(body) ==
    \E f \in {"sport", "homeTeam", "awayTeam", "startTime"} :
        body[f] = Undef \/ body[f] = Str("")

C4_NoWriteWhenRequiredMissing ==
    [][(request'.op = "createMatch" /\ LacksRequired(request'.body))
        => /\ response'.status = 400
           /\ response'.rows = {}
           /\ matches' = matches
           /\ matchSeq' = matchSeq
           /\ commentary' = commentary]_vars

C4_Witness ==
    /\ request.op = "createMatch"
    /\ LacksRequired(request.body)
    /\ response.status = 400
    /\ DOMAIN matches # {}

\* The fields whose own rule the body breaks, and the fields the issues name.
FieldViolated(body, f) ==
    CASE f \in {"sport", "homeTeam", "awayTeam"} -> ~NonEmptyString(body[f])
      [] f \in {"startTime", "endTime"} -> ~(body[f].t = "string" /\ IsIsoDatetime(body[f].s))
      [] OTHER -> body[f] # Undef /\ ~IntAtLeast(body[f], 0)
ViolatedFields(body) == {f \in DOMAIN body : FieldViolated(body, f)}
ReportedFields(issues) == {issues[i].path : i \in 1..Len(issues)} \ {""}
ViolatedRules(body) ==
    ViolatedFields(body) \cup (IF EndNotAfterStart(body) THEN {"order"} ELSE {})

C6_StatusAndScores ==
    \A id \in DOMAIN matches :
        /\ matches[id].status \in {"scheduled", "live", "finished"}
        /\ matches[id].homeScore >= 0
        /\ matches[id].awayScore >= 0

C6_Witness ==
    /\ request.op = "updateMatchScore"
    /\ StoredId(request.id, matches)
    /\ request.body.homeScore = Num(-1)
    /\ response.status = 400
    /\ \E id \in DOMAIN matches : matches[id].homeScore > 0

\* C7: addCommentary with a matchId that is not the id of a stored match
\* fails and leaves the stored commentary as it was.
C7_CommentaryNeedsMatch ==
    [][(request'.op = "addCommentary" /\ ~StoredId(request'.id, matches))
        => /\ response'.status >= 400
           /\ response'.rows = {}
           /\ commentary' = commentary]_vars

C7_Witness ==
    /\ request.op = "addCommentary"
    /\ IntAtLeast(request.id, 1)
    /\ ~StoredId(request.id, matches)
    /\ response.kind = "ConstraintError"
    /\ DOMAIN matches # {}

\* C8: updateMatchScore(id, h, a) on a stored match sets homeScore = h and
\* awayScore = a of that match, which a read by id then returns, and changes
\* no other column of it, no other match and no commentary.
C8_UpdateScoreFrame ==
    [][(/\ request'.op = "updateMatchScore"
        /\ StoredId(request'.id, matches)
        /\ IntAtLeast(request'.body.homeScore, 0)
        /\ IntAtLeast(request'.body.awayScore, 0))
        => LET id == JsNumber(request'.id).num
               h == JsNumber(request'.body.homeScore).num
               a == JsNumber(request'.body.awayScore).num
           IN  /\ response'.status = 200
               /\ DOMAIN matches' = DOMAIN matches
               /\ \A i \in DOMAIN matches : \A c \in DOMAIN matches[i] :
                    matches'[i][c] = IF i = id /\ c = "homeScore" THEN h
                                     ELSE IF i = id /\ c = "awayScore" THEN a
                                     ELSE matches[i][c]
               /\ SelectMatch(matches', id) = response'.rows
               /\ Cardinality(response'.rows) = 1
               /\ commentary' = commentary]_vars

C8_Witness ==
    /\ request.op = "updateMatchScore"
    /\ response.status = 200
    /\ Cardinality(DOMAIN matches) = 2
    /\ \E i \in DOMAIN matches : matches[i].homeScore # 3

\* C9 (as claimed): deleteMatch on an id that is not stored answers NotFound
\* and changes nothing, so a repeated call finds the same; deleteMatch on a
\* stored id removes the match, and a read by that id then finds nothing.
C9_DeleteRemoves ==
    [][(request'.op = "deleteMatch" /\ IntAtLeast(request'.id, 1))
        => LET id == JsNumber(request'.id).num
           IN  /\ SelectMatch(matches', id) = {}
               /\ id \notin DOMAIN matches
                    => /\ response'.kind = "NotFound"
                       /\ matches' = matches
                       /\ commentary' = commentary]_vars

\* Two JSON objects with the same keys and the same value at each key.
JsonEq(a, b) ==
    /\ JsonKeys(a) = JsonKeys(b)
    /\ \A k \in JsonKeys(a) : JsonGet(a, k) = JsonGet(b, k)

\* The row carries the metadata and the tags of the body it was made from.
Faithful(row, body) ==
    /\ "metadata" \in DOMAIN body
         => Cardinality(row.metadata) = 1 /\ \A m \in row.metadata : JsonEq(m, body.metadata)
    /\ "tags" \in DOMAIN body => row.tags = {body.tags}

\* C10: a commentary entry created with metadata m and tags t is returned by
\* the creation, and by every later read, with metadata equal to m and tags
\* equal to t, in the same order and of the same length.
C10_PayloadRoundTrip ==
    /\ \A c \in DOMAIN commentary : Faithful(ReadCommentary(commentary[c]), sent[c])
    /\ (request.op = "addCommentary" /\ response.status = 201)
         => \A row \in response.rows : Faithful(row, request.body)

C10_Witness ==
    /\ request.op = "deleteMatch"
    /\ response.kind = "ConstraintError"
    /\ \E c \in DOMAIN commentary :
         /\ "tags" \in DOMAIN sent[c]
         /\ Len(sent[c].tags) = 3
         /\ Len(sent[c].metadata) = 2

\* C11: listMatchesQuerySchema accepts a query exactly when limit is absent
\* or coerces to an integer from 1 to 100, returning that integer; a limit
\* that coerces to 101 is refused with a too_big (maximum) issue at limit.
C11_LimitRange ==
    (request.op = "listMatchesQuerySchema" /\ Answered)
    => LET v == request.query.limit
           inRange == IntAtLeast(v, 1) /\ JsNumber(v).num <= 100
       IN  /\ response.success <=> (v = Undef \/ inRange)
           /\ (response.success /\ v # Undef) => response.data = [limit |-> JsNumber(v).num]
           /\ (response.success /\ v = Undef) => DOMAIN response.data = {}
           /\ (IntAtLeast(v, 1) /\ JsNumber(v).num = 101)
                => \E i \in 1..Len(response.issues) :
                      response.issues[i].code = "too_big" /\ response.issues[i].path = "limit"

C11_Witness ==
    /\ request.op = "listMatchesQuerySchema"
    /\ Answered
    /\ request.query.limit = Str("100")
    /\ response.success
    /\ response.data.limit = 100

\* C12: matchIdParamSchema succeeds exactly when id coerces to an integer
\* >= 1 and then returns that integer; so it fails for an absent id, 0, a
\* negative or fractional value and text that is no number.
C12_IdPositiveInteger ==
    (request.op = "matchIdParamSchema" /\ Answered)
    => LET v == request.params.id
       IN  /\ response.success <=> IntAtLeast(v, 1)
           /\ response.success => response.data = [id |-> JsNumber(v).num]
           /\ v \in {Undef, Str("0"), Num(0), Str("-1"), Num(-1), Frac(3, 2), Str("1.5"),
                     Str("abc")}
                => ~response.success /\ response.issues # <<>>

C12_Witness ==
    /\ request.op = "matchIdParamSchema"
    /\ Answered
    /\ request.params.id = Str("101")
    /\ response.success
    /\ response.data.id = 101

\* A score as the claim wants it: supplied, and a non-negative integer.
SuppliedScore(v) == v.t \in {"number", "string"} /\ v # Str("") /\ IntAtLeast(v, 0)

\* C13 (as claimed): updateScoreSchema accepts a body only when both scores
\* are supplied and each is a non-negative integer; a body in which either
\* score is absent, null, an empty string, negative or fractional is refused.
C13_BothScoresRequired ==
    (request.op = "updateScoreSchema" /\ Answered)
    => (response.success
          => SuppliedScore(request.body.homeScore) /\ SuppliedScore(request.body.awayScore))

\* C14: loading the database configuration (drizzle.config.js, db.js) throws
\* whenever DATABASE_URL is unset, empty, null or undefined, and otherwise
\* succeeds with the connection string equal to the environment's value,
\* character for character (a padded value is kept padded).
C14_DatabaseUrlRequired ==
    (request.op \in {"drizzleConfig", "dbModule"} /\ Answered)
    => LET missing == \/ "DATABASE_URL" \notin DOMAIN request.env
                      \/ request.env.DATABASE_URL \in {Str(""), Null, Undef}
       IN  /\ missing => response.threw
           /\ ~missing => /\ ~response.threw
                           /\ Str(response.url) = request.env.DATABASE_URL

C14_Witness ==
    /\ request.op = "drizzleConfig"
    /\ Answered
    /\ request.env = [DATABASE_URL |-> Str(UrlPadded)]
    /\ ~response.threw
    /\ response.url = UrlPadded

\* A createMatch body as the claim wants it: the three names non-empty
\* strings, both timestamps in the ISO form the schema takes, endTime after
\* startTime, each score absent or supplied as a non-negative integer.
ValidCreateBody(body) ==
    /\ NonEmptyString(body.sport)
    /\ NonEmptyString(body.homeTeam)
    /\ NonEmptyString(body.awayTeam)
    /\ body.startTime.t = "string" /\ IsIsoDatetime(body.startTime.s)
    /\ body.endTime.t = "string" /\ IsIsoDatetime(body.endTime.s)
    /\ DateParse(body.endTime.s).num > DateParse(body.startTime.s).num
    /\ body.homeScore = Undef \/ SuppliedScore(body.homeScore)
    /\ body.awayScore = Undef \/ SuppliedScore(body.awayScore)

\* C19 (as claimed): createMatchSchema succeeds for every body that meets
\* all of these conditions and refuses every body that breaks one of them.
C19_AcceptsExactlyValid ==
    (request.op = "createMatchSchema" /\ Answered)
    => (response.success <=> ValidCreateBody(request.body))

\* The request passes the validation step of its route.
AcceptableCreateBody(body) ==
    /\ NonEmptyString(body.sport)
    /\ NonEmptyString(body.homeTeam)
    /\ NonEmptyString(body.awayTeam)
    /\ body.startTime.t = "string" /\ IsIsoDatetime(body.startTime.s)
    /\ body.endTime.t = "string" /\ IsIsoDatetime(body.endTime.s)
    /\ DateParse(body.endTime.s).num > DateParse(body.startTime.s).num
    /\ body.homeScore = Undef \/ IntAtLeast(body.homeScore, 0)
    /\ body.awayScore = Undef \/ IntAtLeast(body.awayScore, 0)

RequestValid(req) ==
    CASE req.op = "createMatch" -> AcceptableCreateBody(req.body)
      [] req.op = "updateMatchScore" ->
            /\ IntAtLeast(req.id, 1)
            /\ IntAtLeast(req.body.homeScore, 0)
            /\ IntAtLeast(req.body.awayScore, 0)
      [] OTHER -> IntAtLeast(req.id, 1)

\* The match the request names by id is not among `rows`.
MatchMissing(req, rows) == req.op # "createMatch" /\ JsNumber(req.id).num \notin DOMAIN rows

\* The store refuses the request's statement: a referential violation.
StoreRefuses(req, rows, comments) ==
    \/ req.op = "addCommentary" /\ MatchMissing(req, rows)
    \/ req.op = "deleteMatch" /\ Referenced(JsNumber(req.id).num, comments)

StoreUntouched ==
    /\ matches' = matches
    /\ commentary' = commentary
    /\ matchSeq' = matchSeq
    /\ commentarySeq' = commentarySeq

C18_DeleteCascades ==
    [][(/\ request'.op = "deleteMatch"
        /\ StoredId(request'.id, matches)
        /\ Referenced(JsNumber(request'.id).num, commentary))
        => LET id == JsNumber(request'.id).num
           IN  /\ response'.status = 200
               /\ id \notin DOMAIN matches'
               /\ ~Referenced(id, commentary')]_vars

\* C20: in every reachable state the matchId of every stored commentary
\* entry is the id of a stored match: there is no orphan commentary, also
\* after a deleteMatch.
C20_NoOrphanCommentary ==
    \A c \in DOMAIN commentary : commentary[c].matchId \in DOMAIN matches

C20_Witness ==
    /\ request.op = "deleteMatch"
    /\ statements = <<"delete from matches">>
    /\ \E c \in DOMAIN commentary : commentary[c].matchId = JsNumber(request.id).num

\* C16: under every interleaving a request holds a connection exactly from
\* the moment it takes one for its statement until the statement is over,
\* with a result or with an error; so never more than PoolMax connections
\* are held, and no request that is answered (or has yet to start its
\* statement) holds one.
C16_PoolBounded ==
    /\ Cardinality(pool) <= PoolMax
    /\ pool \subseteq DOMAIN workers
    /\ \A p \in DOMAIN workers :
         /\ p \in pool <=> workers[p].pc \in {"running", "executed"}
         /\ workers[p].pc = "done" => p \notin pool

C16_Witness ==
    /\ Cardinality(pool) = PoolMax
    /\ \E p \in DOMAIN workers : workers[p].pc = "waiting"
    /\ \E p \in DOMAIN workers :
         /\ workers[p].pc = "done"
         /\ workers[p].response.kind = "ConstraintError"

\* The score pairs of the update requests received so far.
RequestedPairs ==
    {<<JsNumber(workers[p].job.body.homeScore).num,
       JsNumber(workers[p].job.body.awayScore).num>> :
        p \in {q \in DOMAIN workers :
                  /\ workers[q].pc # "idle"
                  /\ workers[q].job.op = "updateMatchScore"
                  /\ JobIssues(workers[q].job) = <<>>}}

\* C17: while update requests for the same match run concurrently the
\* match's (homeScore, awayScore) is, in every state, the pair it started
\* with or the whole pair of one of the requests, never a mix of two.
C17_UpdatesAtomic ==
    \A id \in DOMAIN matches :
        <<matches[id].homeScore, matches[id].awayScore>> \in {<<0, 0>>} \cup RequestedPairs

C17_Witness ==
    \E p, q \in DOMAIN workers :
        /\ p # q
        /\ workers[p].pc = "done"
        /\ workers[p].response.status = 200
        /\ workers[q].pc = "executed"
        /\ workers[q].response.status = 200
        /\ \E id \in DOMAIN matches : matches[id].homeScore = q

\* C21: the value a successful createMatchSchema parse produces has no key
\* but sport, homeTeam, awayTeam, startTime, endTime, homeScore and
\* awayScore; so whatever id, status or createdAt the body carries, the
\* match created has status scheduled, the id its serial generated and the
\* createdAt the store's clock gave.
C21_OnlySchemaKeysPassedOn ==
    (request.op = "createMatch" /\ response.status = 201)
    => /\ DOMAIN createMatchSchema(request.body).data
            \subseteq {"sport", "homeTeam", "awayTeam", "startTime", "endTime",
                        "homeScore", "awayScore"}
       /\ Cardinality(response.rows) = 1
       /\ \A row \in response.rows :
            /\ row.status = "scheduled"
            /\ row.id = matchSeq
            /\ row.createdAt = now - 1
            /\ row.id \in DOMAIN matches
            /\ matches[row.id] = row

C21_Witness ==
    /\ request.op = "createMatch"
    /\ {"id", "status", "createdAt"} \subseteq DOMAIN request.body
    /\ request.body.status = Str("finished")
    /\ response.status = 201
    /\ \E row \in response.rows : row.id # request.body.id.num

====
